---- MODULE Spec2Model ----
(***************************************************************************)
(* Model of the document generation and delivery pipeline:                 *)
(*   api/docmosis_client.py   DocmosisClient                               *)
(*   api/dropbox_client.py    DropboxClient                                *)
(*   api/document_service.py  DocumentGenerationService                    *)
(*                                                                         *)
(* Python str and bytes values are sequences of tokens (a token is one or  *)
(* more characters; "/" and ".docx" are always tokens of their own), so    *)
(* that str.replace, len and truthiness are computed, not assumed.         *)
(* Python None is the reserved value None.  Every await of a remote call   *)
(* is a pair of steps: the request is issued, then its outcome arrives.    *)
(***************************************************************************)
EXTENDS Integers, Sequences, FiniteSets, TLC

VARIABLES
    self,         \* configuration read at construction (both clients)
    op,           \* the operation the caller invoked ("idle" before)
    args,         \* its arguments
    pc,           \* position of the running coroutine
    result,       \* generate_documents_for_case: the result dict
    gcd,          \* generate_case_documents frame: templates, results, index
    ucd,          \* upload_case_documents frame: documents, results, index
    gd,           \* generate_document frame: template_name, output_filename
    ud,           \* upload_document frame: document_bytes, full_path
    ret,          \* value returned to the caller of op
    exc,          \* exception that escaped op to its caller (None if none)
    case_json,    \* what build_case_json answered (history)
    trace,        \* outbound requests issued so far, in order
    answers,      \* outcomes of those requests, in order of arrival (history)
    outstanding   \* requests issued and not yet answered

vars == <<self, op, args, pc, result, gcd, ucd, gd, ud, ret, exc, case_json,
          trace, answers, outstanding>>

----------------------------------------------------------------------------
(* Bounds of the model *)

MaxTemplates == 2     \* longest explicit template list a caller passes
MaxDocuments == 2     \* longest document list passed to upload_case_documents

----------------------------------------------------------------------------
(* Python values *)

None == <<"<None>">>

\* truthiness of a str, bytes, dict or None value
Truthy(x) == x # None /\ x # <<>>

\* raised by None.replace(...)
AttributeError == <<"AttributeError">>
AttributeErrorMsg == <<"'NoneType' object has no attribute 'replace'">>

Digits == <<"0", "1", "2", "3", "4", "5", "6", "7", "8", "9">>

RECURSIVE IntToStr(_)
IntToStr(n) ==
    IF n < 10 THEN <<Digits[n + 1]>>
    ELSE IntToStr(n \div 10) \o <<Digits[(n % 10) + 1]>>

IsPrefixAt(s, old, k) ==
    /\ k + Len(old) - 1 <= Len(s)
    /\ \A j \in 1..Len(old) : s[k + j - 1] = old[j]

RECURSIVE ReplaceFrom(_, _, _, _)
ReplaceFrom(s, old, new, k) ==
    IF k > Len(s) THEN <<>>
    ELSE IF IsPrefixAt(s, old, k)
         THEN new \o ReplaceFrom(s, old, new, k + Len(old))
         ELSE <<s[k]>> \o ReplaceFrom(s, old, new, k + 1)

\* str.replace(old, new) for a non-empty old: leftmost, non-overlapping
Replace(s, old, new) == ReplaceFrom(s, old, new, 1)

----------------------------------------------------------------------------
(* Configuration *)

DOCMOSIS_TIMEOUT == 60
DOCMOSIS_RETRY_ATTEMPTS == 3
DROPBOX_BASE_PATH == <<"/", "Apps", "/", "LegalFormApp">>

\* DROPBOX_BASE_PATH from the environment: the default, or set with a trailing "/"
BasePaths == { DROPBOX_BASE_PATH, DROPBOX_BASE_PATH \o <<"/">> }

Configs ==
    [ enabled      : BOOLEAN,
      access_token : {None, <<"sl.token">>},
      base_path    : BasePaths,
      timeout      : {DOCMOSIS_TIMEOUT},
      max_retries  : {0, DOCMOSIS_RETRY_ATTEMPTS} ]

is_enabled(s) == s.enabled /\ Truthy(s.access_token)

----------------------------------------------------------------------------
(* Outcomes of the remote calls (the remote services are not in the source) *)

PDF == <<"%", "P", "D", "F">>

RenderOutcomes ==
    { [kind |-> "response", status_code |-> 200, content |-> PDF],
      [kind |-> "response", status_code |-> 200, content |-> <<>>],
      [kind |-> "response", status_code |-> 500, content |-> <<"template error">>],
      [kind |-> "TimeoutException", status_code |-> 0, content |-> <<"timed out">>],
      [kind |-> "RequestError", status_code |-> 0, content |-> <<"connection refused">>],
      [kind |-> "Exception", status_code |-> 0, content |-> <<"boom">>] }

UploadOutcomes ==
    { [kind |-> "response", status_code |-> 200, content |-> <<"{}">>],
      [kind |-> "response", status_code |-> 400, content |-> <<"bad arg">>],
      [kind |-> "TimeoutException", status_code |-> 0, content |-> <<"timed out">>],
      [kind |-> "RequestError", status_code |-> 0, content |-> <<"connection reset">>],
      [kind |-> "Exception", status_code |-> 0, content |-> <<"boom">>] }

\* build_case_json: a mapping, an empty mapping, nothing, or an exception
CaseData == <<"plaintiffs", "defendants">>
FetchOutcomes ==
    { [kind |-> "return", value |-> CaseData],
      [kind |-> "return", value |-> <<>>],
      [kind |-> "return", value |-> None],
      [kind |-> "Exception", value |-> <<"db down">>] }

----------------------------------------------------------------------------
(* DocmosisClient *)

RenderResultInit(template_name, output_filename) ==
    [ success  |-> FALSE,
      document |-> None,
      filename |-> output_filename,
      size     |-> 0,
      error    |-> None,
      template |-> template_name ]

\* variant: success is set as soon as a response arrives
generate_document_result_eager(s, template_name, output_filename, o) ==
    LET r == RenderResultInit(template_name, output_filename) IN
    IF o.kind = "response" THEN
        IF o.status_code = 200
        THEN [r EXCEPT !.success = TRUE, !.document = o.content,
                       !.size = Len(o.content)]
        ELSE [r EXCEPT !.success = TRUE,
                       !.error = <<"Docmosis API returned ">>
                           \o IntToStr(o.status_code) \o <<": ">> \o o.content]
    ELSE IF o.kind = "TimeoutException"
    THEN [r EXCEPT !.error = <<"Request timeout after ">>
                       \o IntToStr(s.timeout) \o <<"s: ">> \o o.content]
    ELSE IF o.kind = "RequestError"
    THEN [r EXCEPT !.error = <<"Request error: ">> \o o.content]
    ELSE [r EXCEPT !.error = <<"Unexpected error: ">> \o o.content]

\* generate_document, from the outcome of client.post to the returned dict
generate_document_result(s, template_name, output_filename, o) ==
    LET r == RenderResultInit(template_name, output_filename) IN
    IF o.kind = "response" THEN
        IF o.status_code = 200
        THEN [r EXCEPT !.success = TRUE, !.document = o.content,
                       !.size = Len(o.content)]
        ELSE [r EXCEPT !.error = <<"Docmosis API returned ">>
                           \o IntToStr(o.status_code) \o <<": ">> \o o.content]
    ELSE IF o.kind = "TimeoutException"
    THEN [r EXCEPT !.error = <<"Request timeout after ">>
                       \o IntToStr(s.timeout) \o <<"s: ">> \o o.content]
    ELSE IF o.kind = "RequestError"
    THEN [r EXCEPT !.error = <<"Request error: ">> \o o.content]
    ELSE [r EXCEPT !.error = <<"Unexpected error: ">> \o o.content]

DefaultTemplates ==
    << <<"ComplaintForm", ".docx">>,
       <<"DiscoveryRequest", ".docx">>,
       <<"SummonsForm", ".docx">> >>

EffectiveTemplates(templates) ==
    IF templates = None THEN DefaultTemplates ELSE templates

\* a list element that is not a str (None): template.replace raises
IsStr(t) == t # None

OutputFilename(case_id, template) ==
    case_id \o <<"_">> \o Replace(template, <<".docx">>, <<>>) \o <<".pdf">>

BatchResultsInit(templates) ==
    [ total |-> Len(templates), successful |-> 0, failed |-> 0, documents |-> <<>> ]

\* variant: newest result first
AppendDocFront(documents, doc_result) == <<doc_result>> \o documents

AppendDoc(documents, doc_result) == Append(documents, doc_result)

\* variant: a failed render is recorded but not counted
RecordRenderUncounted(results, doc_result) ==
    LET counted == IF doc_result.success
                   THEN [results EXCEPT !.successful = @ + 1]
                   ELSE results
    IN [counted EXCEPT !.documents = AppendDoc(@, doc_result)]

\* loop body after the await: count the outcome and record it
RecordRender(results, doc_result) ==
    LET counted == IF doc_result.success
                   THEN [results EXCEPT !.successful = @ + 1]
                   ELSE [results EXCEPT !.failed = @ + 1]
    IN [counted EXCEPT !.documents = AppendDoc(@, doc_result)]

----------------------------------------------------------------------------
(* DropboxClient *)

UploadResultInit ==
    [ success |-> FALSE, dropbox_path |-> None, size |-> 0, error |-> None ]

\* variant: the token check is left out
UploadGuardNoTokenCheck(s) == IF ~s.enabled THEN "disabled" ELSE "ok"

\* upload_document before any request: "ok" when a request will be made
UploadGuard(s) ==
    IF ~s.enabled THEN "disabled"
    ELSE IF ~Truthy(s.access_token) THEN "no_token"
    ELSE "ok"

UploadEarlyResult(s) ==
    IF UploadGuard(s) = "disabled"
    THEN [UploadResultInit EXCEPT !.error = <<"Dropbox upload disabled">>]
    ELSE [UploadResultInit EXCEPT !.error = <<"Dropbox access token not configured">>]

FullPath(s, dropbox_path) ==
    Replace(s.base_path \o <<"/">> \o dropbox_path, <<"/", "/">>, <<"/">>)

\* upload_document, from the outcome of client.post to the returned dict
upload_document_result(document_bytes, full_path, o) ==
    LET r == UploadResultInit IN
    IF o.kind = "response" THEN
        IF o.status_code = 200
        THEN [r EXCEPT !.success = TRUE, !.dropbox_path = full_path,
                       !.size = Len(document_bytes)]
        ELSE [r EXCEPT !.error = <<"Dropbox API returned ">>
                           \o IntToStr(o.status_code) \o <<": ">> \o o.content]
    ELSE IF o.kind = "TimeoutException"
    THEN [r EXCEPT !.error = <<"Upload timeout: ">> \o o.content]
    ELSE IF o.kind = "RequestError"
    THEN [r EXCEPT !.error = <<"Request error: ">> \o o.content]
    ELSE [r EXCEPT !.error = <<"Unexpected error: ">> \o o.content]

UploadsInit(documents) ==
    [ total |-> Len(documents), successful |-> 0, failed |-> 0, uploads |-> <<>> ]

\* variant: only the success flag is tested
ShouldSkipFailedOnly(doc) == ~doc.success

\* not doc.get('success') or not doc.get('document')
ShouldSkip(doc) == ~doc.success \/ ~Truthy(doc.document)

SyntheticEntry(doc) ==
    [ filename |-> doc.filename, success |-> FALSE,
      error |-> <<"Document generation failed">> ]

\* variant: a skipped document is counted but leaves no entry
RecordSkipSilently(results, doc) == [results EXCEPT !.failed = @ + 1]

RecordSkip(results, doc) ==
    [results EXCEPT !.failed = @ + 1, !.uploads = Append(@, SyntheticEntry(doc))]

CasePath(case_id, filename) == <<"Cases", "/">> \o case_id \o <<"/">> \o filename

UploadEntry(doc, upload_result) ==
    [ filename     |-> doc.filename,
      success      |-> upload_result.success,
      dropbox_path |-> upload_result.dropbox_path,
      size         |-> upload_result.size,
      error        |-> upload_result.error ]

RecordUpload(results, doc, upload_result) ==
    LET counted == IF upload_result.success
                   THEN [results EXCEPT !.successful = @ + 1]
                   ELSE [results EXCEPT !.failed = @ + 1]
    IN [counted EXCEPT !.uploads = Append(@, UploadEntry(doc, upload_result))]

----------------------------------------------------------------------------
(* DocumentGenerationService *)

\* fetch_case_data, from the outcome of build_case_json to the returned value
fetch_case_data(o) ==
    IF o.kind = "Exception" THEN None
    ELSE IF ~Truthy(o.value) THEN None
    ELSE o.value

PipelineResultInit(case_id) ==
    [ case_id             |-> case_id,
      success             |-> FALSE,
      documents_generated |-> 0,
      documents_uploaded  |-> 0,
      documents           |-> <<>>,
      dropbox_uploads     |-> <<>>,
      error               |-> None ]

\* variant: the emptiness check is left out
CaseMissingUnchecked(case_data) == FALSE

CaseMissing(case_data) == ~Truthy(case_data)

NotFoundError(case_id) == <<"Case not found: ">> \o case_id

\* variant: only an empty batch counts as nothing generated
NoneGeneratedEmptyOnly(doc_results) == doc_results.total = 0

NoneGenerated(doc_results) == doc_results.successful = 0

UploadStep(s, upload_to_dropbox) == upload_to_dropbox /\ is_enabled(s)

\* variant: the handler names the transport's exceptions only
CaughtTransportOnly(e) == e # AttributeError

\* except Exception at the end of a service method's try block
Caught(e) == TRUE

UnexpectedError(msg) == <<"Unexpected error: ">> \o msg

\* lines 111-117: take over the batch result; stop if nothing was generated
PipelineAfterRender(res, doc_results) ==
    LET r == [res EXCEPT !.documents = doc_results.documents,
                         !.documents_generated = doc_results.successful]
    IN IF NoneGenerated(doc_results)
       THEN [r EXCEPT !.error = <<"No documents generated successfully">>]
       ELSE r

\* lines 131-132
PipelineAfterUpload(res, upload_results) ==
    [res EXCEPT !.dropbox_uploads = upload_results.uploads,
                !.documents_uploaded = upload_results.successful]

\* variant: success follows the uploads
MarkSuccessfulIfUploaded(res) == [res EXCEPT !.success = res.documents_uploaded > 0]

\* line 141
MarkSuccessful(res) == [res EXCEPT !.success = TRUE]

\* variant: the caller's upload_to_dropbox flag is ignored
ShouldUploadSingleAlways(s, doc_result, upload_to_dropbox) ==
    doc_result.success /\ is_enabled(s)

\* generate_single_document, line 194
ShouldUploadSingle(s, doc_result, upload_to_dropbox) ==
    doc_result.success /\ upload_to_dropbox /\ is_enabled(s)

\* line 200: doc_result['dropbox_upload'] = upload_result
AttachUpload(doc_result, upload_result) ==
    [dropbox_upload |-> upload_result] @@ doc_result

SingleFailure(msg) == [success |-> FALSE, error |-> msg]

----------------------------------------------------------------------------
(* Inputs *)

SeqsUpTo(S, n) == UNION { [1..k -> S] : k \in 0..n }

CaseIds == { <<"abc-123">> }

TemplateChoices == { DefaultTemplates[1], DefaultTemplates[3], None }

TemplateLists == SeqsUpTo(TemplateChoices, MaxTemplates) \cup {None}

\* render results a caller may hand to upload_case_documents
DocumentChoices(s, case_id) ==
    { generate_document_result(s, DefaultTemplates[1],
                               OutputFilename(case_id, DefaultTemplates[1]), o) :
        o \in { x \in RenderOutcomes : x.kind = "response" } }

\* paths a caller hands to upload_document: as upload_case_documents builds
\* them, and with the leading "/" of the docstring's example
RelativePaths(case_id) ==
    { CasePath(case_id, OutputFilename(case_id, DefaultTemplates[1])),
      <<"/">> \o CasePath(case_id, <<"doc", ".pdf">>),
      CasePath(case_id, <<"doc", ".pdf">>) }

RenderCall(template_name, output_filename) ==
    [kind |-> "render", template |-> template_name, target |-> output_filename]

UploadCall(document_bytes, full_path) ==
    [kind |-> "upload", template |-> None, target |-> full_path]

NoFrame == [i |-> 0]

NotFetched == [kind |-> "not awaited", value |-> None]

----------------------------------------------------------------------------
(* State after construction of the clients and the service *)

Init ==
    /\ self \in Configs
    /\ op = "idle"
    /\ args = NoFrame
    /\ pc = "idle"
    /\ result = NoFrame
    /\ gcd = NoFrame
    /\ ucd = NoFrame
    /\ gd = NoFrame
    /\ ud = NoFrame
    /\ ret = NoFrame
    /\ exc = None
    /\ case_json = NotFetched
    /\ trace = <<>>
    /\ answers = <<>>
    /\ outstanding = 0

----------------------------------------------------------------------------
(* Steps shared by the operations *)

\* an exception leaves a service method's try block
ServiceRaise(e, caught_value) ==
    IF Caught(e)
    THEN /\ ret' = caught_value
         /\ exc' = None
         /\ pc' = "done"
    ELSE /\ ret' = NoFrame
         /\ exc' = e
         /\ pc' = "raised"

\* generate_case_documents, lines 141-156
EnterGcd(case_id, templates) ==
    /\ gcd' = [ case_id   |-> case_id,
                templates |-> EffectiveTemplates(templates),
                results   |-> BatchResultsInit(EffectiveTemplates(templates)),
                i         |-> 1 ]
    /\ pc' = "gcd_loop"

\* client.post is awaited: the request is on the wire
IssueRender(template_name, output_filename) ==
    /\ gd' = [template_name |-> template_name, output_filename |-> output_filename]
    /\ trace' = Append(trace, RenderCall(template_name, output_filename))
    /\ outstanding' = outstanding + 1
    /\ pc' = "gd_wait"

IssueUpload(document_bytes, dropbox_path) ==
    /\ ud' = [document_bytes |-> document_bytes,
              full_path |-> FullPath(self, dropbox_path)]
    /\ trace' = Append(trace, UploadCall(document_bytes, FullPath(self, dropbox_path)))
    /\ outstanding' = outstanding + 1
    /\ pc' = "ud_wait"

----------------------------------------------------------------------------
(* DocmosisClient.generate_document, called directly *)

generate_document(template_name, output_filename) ==
    /\ pc = "idle"
    /\ op' = "generate_document"
    /\ args' = [template_name |-> template_name, output_filename |-> output_filename]
    /\ IssueRender(template_name, output_filename)
    /\ UNCHANGED <<self, case_json, answers, result, gcd, ucd, ud, ret, exc>>

(* DocmosisClient.generate_case_documents, called directly *)

generate_case_documents(case_id, templates) ==
    /\ pc = "idle"
    /\ op' = "generate_case_documents"
    /\ args' = [case_id |-> case_id, templates |-> templates]
    /\ EnterGcd(case_id, templates)
    /\ UNCHANGED <<self, case_json, answers, result, ucd, gd, ud, ret, exc, trace, outstanding>>

\* loop body up to the await of generate_document (lines 158-167)
GcdIssue ==
    /\ pc = "gcd_loop"
    /\ gcd.i <= Len(gcd.templates)
    /\ IsStr(gcd.templates[gcd.i])
    /\ IssueRender(gcd.templates[gcd.i],
                   OutputFilename(gcd.case_id, gcd.templates[gcd.i]))
    /\ UNCHANGED <<self, case_json, answers, op, args, result, gcd, ucd, ud, ret, exc>>

\* template.replace on an element that is not a str (line 160)
GcdRaise ==
    /\ pc = "gcd_loop"
    /\ gcd.i <= Len(gcd.templates)
    /\ ~IsStr(gcd.templates[gcd.i])
    /\ IF op = "generate_documents_for_case"
       THEN /\ result' = [result EXCEPT !.error = UnexpectedError(AttributeErrorMsg)]
            /\ ServiceRaise(AttributeError, result')
       ELSE /\ exc' = AttributeError
            /\ pc' = "raised"
            /\ UNCHANGED <<result, ret>>
    /\ UNCHANGED <<self, case_json, answers, op, args, gcd, ucd, gd, ud, trace, outstanding>>

\* upload_case_documents, lines 134-145: TRUE when the loop is entered
UcdEnters == self.enabled

EnterUcd(case_id, documents) ==
    /\ ucd' = [ case_id   |-> case_id,
                documents |-> documents,
                results   |-> UploadsInit(documents),
                i         |-> 1 ]
    /\ pc' = "ucd_loop"

\* the loop is over: return results to the caller (lines 176-181), which for
\* generate_documents_for_case goes on with lines 111-129
GcdReturn ==
    /\ pc = "gcd_loop"
    /\ gcd.i > Len(gcd.templates)
    /\ IF op = "generate_case_documents"
       THEN /\ ret' = gcd.results
            /\ pc' = "done"
            /\ UNCHANGED <<result, ucd>>
       ELSE LET r == PipelineAfterRender(result, gcd.results) IN
            IF NoneGenerated(gcd.results)
            THEN /\ result' = r
                 /\ ret' = r
                 /\ pc' = "done"
                 /\ UNCHANGED ucd
            ELSE IF UploadStep(self, args.upload_to_dropbox)
            THEN IF UcdEnters
                 THEN /\ result' = r
                      /\ EnterUcd(args.case_id, gcd.results.documents)
                      /\ UNCHANGED ret
                 ELSE /\ result' = MarkSuccessful(PipelineAfterUpload(r,
                                       UploadsInit(gcd.results.documents)))
                      /\ ret' = result'
                      /\ pc' = "done"
                      /\ UNCHANGED ucd
            ELSE /\ result' = MarkSuccessful(r)
                 /\ ret' = result'
                 /\ pc' = "done"
                 /\ UNCHANGED ucd
    /\ UNCHANGED <<self, case_json, answers, op, args, gcd, gd, ud, exc, trace, outstanding>>

\* the outcome of client.post arrives in generate_document (lines 94-118);
\* the caller goes on to its next await or returns
GdReturn ==
    /\ pc = "gd_wait"
    /\ \E o \in RenderOutcomes :
         LET doc_result == generate_document_result(self, gd.template_name,
                                                    gd.output_filename, o) IN
         /\ outstanding' = outstanding - 1
         /\ answers' = Append(answers, o)
         /\ IF op = "generate_document"
            THEN /\ ret' = doc_result
                 /\ pc' = "done"
                 /\ UNCHANGED gcd
            ELSE IF op = "generate_single_document"
            THEN /\ ret' = doc_result
                 /\ pc' = IF ShouldUploadSingle(self, doc_result, args.upload_to_dropbox)
                          THEN "single_upload" ELSE "done"
                 /\ UNCHANGED gcd
            ELSE /\ gcd' = [gcd EXCEPT !.results = RecordRender(@, doc_result),
                                       !.i = @ + 1]
                 /\ pc' = "gcd_loop"
                 /\ UNCHANGED ret
    /\ UNCHANGED <<self, case_json, op, args, result, ucd, gd, ud, exc, trace>>

----------------------------------------------------------------------------
(* DropboxClient.upload_document, called directly *)

upload_document(document_bytes, dropbox_path) ==
    /\ pc = "idle"
    /\ op' = "upload_document"
    /\ args' = [document_bytes |-> document_bytes, dropbox_path |-> dropbox_path]
    /\ IF UploadGuard(self) = "ok"
       THEN /\ IssueUpload(document_bytes, dropbox_path)
            /\ UNCHANGED ret
       ELSE /\ ret' = UploadEarlyResult(self)
            /\ pc' = "done"
            /\ UNCHANGED <<ud, trace, outstanding>>
    /\ UNCHANGED <<self, case_json, answers, result, gcd, ucd, gd, exc>>

(* DropboxClient.upload_case_documents, called directly *)

upload_case_documents(case_id, documents) ==
    /\ pc = "idle"
    /\ op' = "upload_case_documents"
    /\ args' = [case_id |-> case_id, documents |-> documents]
    /\ IF UcdEnters
       THEN /\ EnterUcd(case_id, documents)
            /\ UNCHANGED ret
       ELSE /\ ret' = UploadsInit(documents)
            /\ pc' = "done"
            /\ UNCHANGED ucd
    /\ UNCHANGED <<self, case_json, answers, result, gcd, gd, ud, exc, trace, outstanding>>

\* a document whose render failed or that carries no bytes (lines 148-156)
UcdSkip ==
    /\ pc = "ucd_loop"
    /\ ucd.i <= Len(ucd.documents)
    /\ ShouldSkip(ucd.documents[ucd.i])
    /\ ucd' = [ucd EXCEPT !.results = RecordSkip(@, ucd.documents[ucd.i]),
                          !.i = @ + 1]
    /\ UNCHANGED <<self, case_json, answers, op, args, pc, result, gcd, gd, ud, ret, exc, trace, outstanding>>

\* upload_document returns before any request (lines 61-68, 167-175)
UcdRefused ==
    /\ pc = "ucd_loop"
    /\ ucd.i <= Len(ucd.documents)
    /\ ~ShouldSkip(ucd.documents[ucd.i])
    /\ UploadGuard(self) # "ok"
    /\ ucd' = [ucd EXCEPT !.results = RecordUpload(@, ucd.documents[ucd.i],
                                                   UploadEarlyResult(self)),
                          !.i = @ + 1]
    /\ UNCHANGED <<self, case_json, answers, op, args, pc, result, gcd, gd, ud, ret, exc, trace, outstanding>>

\* loop body up to the await of client.post in upload_document (lines 158-89)
UcdIssue ==
    /\ pc = "ucd_loop"
    /\ ucd.i <= Len(ucd.documents)
    /\ ~ShouldSkip(ucd.documents[ucd.i])
    /\ UploadGuard(self) = "ok"
    /\ IssueUpload(ucd.documents[ucd.i].document,
                   CasePath(ucd.case_id, ucd.documents[ucd.i].filename))
    /\ UNCHANGED <<self, case_json, answers, op, args, result, gcd, ucd, gd, ret, exc>>

\* the loop is over: return results (lines 177-182); generate_documents_for_case
\* goes on with lines 131-153
UcdReturn ==
    /\ pc = "ucd_loop"
    /\ ucd.i > Len(ucd.documents)
    /\ IF op = "upload_case_documents"
       THEN /\ ret' = ucd.results
            /\ UNCHANGED result
       ELSE /\ result' = MarkSuccessful(PipelineAfterUpload(result, ucd.results))
            /\ ret' = result'
    /\ pc' = "done"
    /\ UNCHANGED <<self, case_json, answers, op, args, gcd, ucd, gd, ud, exc, trace, outstanding>>

\* the outcome of client.post arrives in upload_document (lines 91-113)
UdReturn ==
    /\ pc = "ud_wait"
    /\ \E o \in UploadOutcomes :
         LET upload_result == upload_document_result(ud.document_bytes,
                                                     ud.full_path, o) IN
         /\ outstanding' = outstanding - 1
         /\ answers' = Append(answers, o)
         /\ IF op = "upload_document"
            THEN /\ ret' = upload_result
                 /\ pc' = "done"
                 /\ UNCHANGED ucd
            ELSE IF op = "generate_single_document"
            THEN /\ ret' = AttachUpload(ret, upload_result)
                 /\ pc' = "done"
                 /\ UNCHANGED ucd
            ELSE /\ ucd' = [ucd EXCEPT
                              !.results = RecordUpload(@, ucd.documents[ucd.i],
                                                       upload_result),
                              !.i = @ + 1]
                 /\ pc' = "ucd_loop"
                 /\ UNCHANGED ret
    /\ UNCHANGED <<self, case_json, op, args, result, gcd, gd, ud, exc, trace>>

----------------------------------------------------------------------------
(* DocumentGenerationService.generate_documents_for_case *)

generate_documents_for_case(case_id, templates, upload_to_dropbox) ==
    /\ pc = "idle"
    /\ op' = "generate_documents_for_case"
    /\ args' = [case_id |-> case_id, templates |-> templates,
                upload_to_dropbox |-> upload_to_dropbox]
    /\ result' = PipelineResultInit(case_id)
    /\ pc' = "fetch"
    /\ UNCHANGED <<self, case_json, answers, gcd, ucd, gd, ud, ret, exc, trace, outstanding>>

\* build_case_json answers; lines 45-56 and 97-109
PipelineFetched ==
    /\ pc = "fetch"
    /\ op = "generate_documents_for_case"
    /\ \E o \in FetchOutcomes :
         LET case_data == fetch_case_data(o) IN
         /\ case_json' = o
         /\ IF CaseMissing(case_data)
            THEN /\ result' = [result EXCEPT !.error = NotFoundError(args.case_id)]
                 /\ ret' = result'
                 /\ pc' = "done"
                 /\ UNCHANGED gcd
            ELSE /\ EnterGcd(args.case_id, args.templates)
                 /\ UNCHANGED <<result, ret>>
    /\ UNCHANGED <<self, answers, op, args, ucd, gd, ud, exc, trace, outstanding>>

(* DocumentGenerationService.generate_single_document *)

generate_single_document(case_id, template_name, upload_to_dropbox) ==
    /\ pc = "idle"
    /\ op' = "generate_single_document"
    /\ args' = [case_id |-> case_id, template_name |-> template_name,
                upload_to_dropbox |-> upload_to_dropbox]
    /\ pc' = "fetch"
    /\ UNCHANGED <<self, case_json, answers, result, gcd, ucd, gd, ud, ret, exc, trace, outstanding>>

\* build_case_json answers; lines 45-56 and 176-191
SingleFetched ==
    /\ pc = "fetch"
    /\ op = "generate_single_document"
    /\ \E o \in FetchOutcomes :
         LET case_data == fetch_case_data(o) IN
         /\ case_json' = o
         /\ IF CaseMissing(case_data)
            THEN /\ ret' = SingleFailure(NotFoundError(args.case_id))
                 /\ pc' = "done"
                 /\ UNCHANGED <<exc, gd, trace, outstanding>>
            ELSE IF ~IsStr(args.template_name)
            THEN /\ ServiceRaise(AttributeError, SingleFailure(AttributeErrorMsg))
                 /\ UNCHANGED <<gd, trace, outstanding>>
            ELSE /\ IssueRender(args.template_name,
                                OutputFilename(args.case_id, args.template_name))
                 /\ UNCHANGED <<ret, exc>>
    /\ UNCHANGED <<self, answers, op, args, result, gcd, ucd, ud>>

\* lines 195-199: the render succeeded and uploads are on
SingleUpload ==
    /\ pc = "single_upload"
    /\ IF UploadGuard(self) = "ok"
       THEN /\ IssueUpload(ret.document, CasePath(args.case_id, ret.filename))
            /\ UNCHANGED ret
       ELSE /\ ret' = AttachUpload(ret, UploadEarlyResult(self))
            /\ pc' = "done"
            /\ UNCHANGED <<ud, trace, outstanding>>
    /\ UNCHANGED <<self, case_json, answers, op, args, result, gcd, ucd, gd, exc>>

----------------------------------------------------------------------------

Next ==
    \/ \E c \in CaseIds, t \in TemplateLists, u \in BOOLEAN :
         generate_documents_for_case(c, t, u)
    \/ PipelineFetched
    \/ \E c \in CaseIds, t \in TemplateChoices, u \in BOOLEAN :
         generate_single_document(c, t, u)
    \/ SingleFetched
    \/ SingleUpload
    \/ \E c \in CaseIds, t \in TemplateLists : generate_case_documents(c, t)
    \/ GcdIssue
    \/ GcdRaise
    \/ GcdReturn
    \/ \E c \in CaseIds :
         generate_document(DefaultTemplates[1], OutputFilename(c, DefaultTemplates[1]))
    \/ GdReturn
    \/ \E c \in CaseIds : \E d \in SeqsUpTo(DocumentChoices(self, c), MaxDocuments) :
         upload_case_documents(c, d)
    \/ UcdSkip
    \/ UcdRefused
    \/ UcdIssue
    \/ UcdReturn
    \/ \E b \in {PDF, <<>>} : \E c \in CaseIds : \E p \in RelativePaths(c) :
         upload_document(b, p)
    \/ UdReturn

Spec == Init /\ [][Next]_vars

----------------------------------------------------------------------------
(* Vocabulary of the properties *)

RenderOK(o) == o.kind = "response" /\ o.status_code = 200
UploadOK(o) == o.kind = "response" /\ o.status_code = 200

IsRender(c) == c.kind = "render"
IsUpload(c) == c.kind = "upload"
Renders == SelectSeq(trace, IsRender)
Uploads == SelectSeq(trace, IsUpload)

\* requests are answered in the order they were issued: answers[k] is the
\* outcome of trace[k]
Answered(k) == k <= Len(answers)

InPipeline == op = "generate_documents_for_case"
InSingle == op = "generate_single_document"
Returned == pc = "done"

\* the template list generate_documents_for_case works on
Requested == EffectiveTemplates(args.templates)
AllStr(T) == \A k \in 1..Len(T) : IsStr(T[k])

NothingFetched ==
    \/ case_json.kind = "Exception"
    \/ case_json.kind = "return" /\ case_json.value \in {None, <<>>}
CaseFound == case_json.kind = "return" /\ case_json.value \notin {None, <<>>}

SummaryAddsUp(r, items, n) ==
    /\ r.successful + r.failed = r.total
    /\ r.total = n
    /\ Len(items) = n

----------------------------------------------------------------------------
(* C1: every batch call returns a summary with                             *)
(* successful + failed = total = length of the input list and one entry    *)
(* per input item, in every client configuration.  This is the claim as    *)
(* written; upload_case_documents on a disabled client breaks it.          *)
C1_AsWritten ==
    /\ (op = "generate_case_documents" /\ Returned)
          => SummaryAddsUp(ret, ret.documents, Len(Requested))
    /\ (pc = "gcd_loop" /\ gcd.i > Len(gcd.templates))
          => SummaryAddsUp(gcd.results, gcd.results.documents, Len(gcd.templates))
    /\ (op = "upload_case_documents" /\ Returned)
          => SummaryAddsUp(ret, ret.uploads, Len(args.documents))
    /\ (pc = "ucd_loop" /\ ucd.i > Len(ucd.documents))
          => SummaryAddsUp(ucd.results, ucd.results.uploads, Len(ucd.documents))

(* C1 as amended: the summary of generate_case_documents always adds up,   *)
(* and so does the summary of upload_case_documents when the upload client *)
(* is enabled (with or without a token); on a disabled client              *)
(* upload_case_documents returns total = length of the input list,         *)
(* successful = failed = 0 and an empty uploads list.                      *)
C1_BatchSummary ==
    /\ (op = "generate_case_documents" /\ Returned)
          => SummaryAddsUp(ret, ret.documents, Len(Requested))
    /\ (pc = "gcd_loop" /\ gcd.i > Len(gcd.templates))
          => SummaryAddsUp(gcd.results, gcd.results.documents, Len(gcd.templates))
    /\ (op = "upload_case_documents" /\ Returned /\ self.enabled)
          => SummaryAddsUp(ret, ret.uploads, Len(args.documents))
    /\ (op = "upload_case_documents" /\ Returned /\ ~self.enabled)
          => /\ ret.total = Len(args.documents)
             /\ ret.successful = 0
             /\ ret.failed = 0
             /\ ret.uploads = <<>>
    /\ (pc = "ucd_loop" /\ ucd.i > Len(ucd.documents))
          => SummaryAddsUp(ucd.results, ucd.results.uploads, Len(ucd.documents))

\* a batch of two documents went through an enabled client without a token
C1_Witness ==
    /\ op = "upload_case_documents" /\ Returned
    /\ self.enabled /\ ~Truthy(self.access_token)
    /\ Len(args.documents) = 2
    /\ ret.total = 2 /\ ret.failed = 2 /\ Len(ret.uploads) = 2

(* C2: generate_documents_for_case never lets an exception reach its       *)
(* caller, whichever step fails and however: it returns a result with      *)
(* success = true, or with success = false and a non-empty error.          *)
C2_NeverRaises ==
    InPipeline =>
        /\ pc # "raised"
        /\ exc = None
        /\ Returned => (~ret.success => Truthy(ret.error))
        /\ Returned => (ret.success => ret.error = None)

\* the render batch raised after a first render, and the result says so
C2_Witness ==
    /\ InPipeline /\ Returned
    /\ Len(trace) = 1
    /\ ~ret.success
    /\ ret.error = UnexpectedError(AttributeErrorMsg)

(* C3: a returned result has success = true only if documents_generated    *)
(* >= 1, and success = true whenever the render batch returned at least    *)
(* one successful document, whatever the uploads did.                      *)
C3_SuccessIffGenerated ==
    (InPipeline /\ Returned) =>
        /\ ret.success => ret.documents_generated >= 1
        /\ ( /\ CaseFound
             /\ AllStr(Requested)
             /\ \E k \in 1..Len(Requested) : Answered(k) /\ RenderOK(answers[k]) )
           => ret.success

\* every attempted upload failed and the result is still a success
C3_Witness ==
    /\ InPipeline /\ Returned
    /\ ret.success
    /\ Len(Uploads) >= 1
    /\ ret.documents_uploaded = 0
    /\ \A k \in 1..Len(ret.dropbox_uploads) : ~ret.dropbox_uploads[k].success

(* C4: when the case data fetch yields nothing (no data, empty data or an  *)
(* error inside the fetch), generate_documents_for_case returns            *)
(* success = false, zero counts, empty lists and a "not found" error, and  *)
(* neither the render client nor the upload client is called.              *)
C4_CaseNotFound ==
    (InPipeline /\ NothingFetched) =>
        /\ Returned
        /\ ret = [PipelineResultInit(args.case_id) EXCEPT
                    !.error = <<"Case not found: ">> \o args.case_id]
        /\ trace = <<>>
        /\ gcd = NoFrame
        /\ ucd = NoFrame

\* the fetch raised inside fetch_case_data
C4_Witness ==
    /\ InPipeline /\ Returned
    /\ case_json.kind = "Exception"
    /\ ~ret.success

(* C5: when every requested template fails to render (an empty template    *)
(* list included), generate_documents_for_case returns success = false     *)
(* with the error "No documents generated successfully",                   *)
(* documents_generated = 0, one failure entry per requested template in    *)
(* documents, and attempts no upload.                                      *)
C5_AllRendersFail ==
    ( /\ InPipeline /\ Returned /\ CaseFound /\ AllStr(Requested)
      /\ \A k \in 1..Len(Requested) : Answered(k) /\ ~RenderOK(answers[k]) )
    =>
        /\ ~ret.success
        /\ ret.error = <<"No documents generated successfully">>
        /\ ret.documents_generated = 0
        /\ Len(ret.documents) = Len(Requested)
        /\ \A k \in 1..Len(Requested) :
              /\ ~ret.documents[k].success
              /\ ret.documents[k].template = Requested[k]
              /\ Truthy(ret.documents[k].error)
        /\ ret.dropbox_uploads = <<>>
        /\ ret.documents_uploaded = 0
        /\ Uploads = <<>>
        /\ ucd = NoFrame

\* the three default templates all failed
C5_Witness ==
    /\ InPipeline /\ Returned
    /\ args.templates = None
    /\ Len(ret.documents) = 3
    /\ ret.documents_generated = 0
    /\ is_enabled(self) /\ args.upload_to_dropbox

----------------------------------------------------------------------------
(* More vocabulary *)

CaseId == args.case_id

\* indices of the requested templates whose render answered 200
RenderedOK == { k \in 1..Len(Requested) : Answered(k) /\ RenderOK(answers[k]) }
RenderedBad == { k \in 1..Len(Requested) : Answered(k) /\ ~RenderOK(answers[k]) }

\* indices of the answers that belong to uploads and report 200
UploadedOK ==
    { j \in 1..Len(answers) : IsUpload(trace[j]) /\ UploadOK(answers[j]) }

\* the destination written out: base path, Cases, case id, file name
Destination(case_id, template) ==
    <<"/", "Apps", "/", "LegalFormApp", "/", "Cases", "/">> \o case_id
        \o <<"/">> \o case_id \o <<"_", template[1], ".pdf">>

FileName(case_id, template) == case_id \o <<"_", template[1], ".pdf">>

RECURSIVE IsSubseq(_, _)
IsSubseq(a, b) ==
    IF a = <<>> THEN TRUE
    ELSE IF b = <<>> THEN FALSE
    ELSE IF Head(a) = Head(b) THEN IsSubseq(Tail(a), Tail(b))
    ELSE IsSubseq(a, Tail(b))

(* C6: when some but not all requested templates render and uploads are    *)
(* enabled and credentialed, the whole per-document list goes to the       *)
(* upload batch: dropbox_uploads has one entry per requested template in   *)
(* template order, a failed render is a synthetic entry (success = false,  *)
(* error "Document generation failed") made without a request, and         *)
(* documents_uploaded is the number of attempted uploads that succeeded.   *)
C6_PartialBatchUpload ==
    ( /\ InPipeline /\ Returned /\ CaseFound /\ AllStr(Requested)
      /\ args.upload_to_dropbox /\ is_enabled(self)
      /\ RenderedOK # {} /\ RenderedBad # {} )
    =>
        /\ ucd.documents = ret.documents
        /\ Len(ret.documents) = Len(Requested)
        /\ Len(ret.dropbox_uploads) = Len(Requested)
        /\ \A k \in 1..Len(Requested) :
              ret.dropbox_uploads[k].filename = FileName(CaseId, Requested[k])
        /\ \A k \in RenderedBad :
              ret.dropbox_uploads[k] =
                  [ filename |-> FileName(CaseId, Requested[k]),
                    success  |-> FALSE,
                    error    |-> <<"Document generation failed">> ]
        /\ Len(Uploads) <= Cardinality(RenderedOK)
        /\ \A j \in 1..Len(Uploads) :
              \E k \in RenderedOK : Uploads[j].target = Destination(CaseId, Requested[k])
        /\ ret.documents_uploaded = Cardinality(UploadedOK)
        /\ ret.documents_uploaded <= Cardinality(RenderedOK)

\* one of the three default templates rendered and was uploaded
C6_Witness ==
    /\ InPipeline /\ Returned
    /\ args.templates = None
    /\ Cardinality(RenderedOK) = 1 /\ Cardinality(RenderedBad) = 2
    /\ Len(ret.dropbox_uploads) = 3
    /\ Len(Uploads) = 1
    /\ ret.documents_uploaded = 1

(* C7: upload_document makes no request when the upload client is disabled *)
(* or has no access token: it returns success = false, dropbox_path None,  *)
(* size 0 and an error naming the cause.  A request is made only when the  *)
(* client is enabled and has a token.                                      *)
C7_NoRequestWithoutCredentials ==
    /\ \A k \in 1..Len(trace) :
          IsUpload(trace[k]) => (self.enabled /\ Truthy(self.access_token))
    /\ (op = "upload_document" /\ ~self.enabled) =>
          /\ Returned
          /\ trace = <<>>
          /\ ret = [ success |-> FALSE, dropbox_path |-> None, size |-> 0,
                     error |-> <<"Dropbox upload disabled">> ]
    /\ (op = "upload_document" /\ self.enabled /\ ~Truthy(self.access_token)) =>
          /\ Returned
          /\ trace = <<>>
          /\ ret = [ success |-> FALSE, dropbox_path |-> None, size |-> 0,
                     error |-> <<"Dropbox access token not configured">> ]
    /\ (op = "upload_document" /\ self.enabled /\ Truthy(self.access_token)) =>
          /\ Len(trace) = 1
          /\ IsUpload(trace[1])

\* an enabled client without a token refused the upload
C7_Witness ==
    /\ op = "upload_document" /\ Returned
    /\ self.enabled /\ ~Truthy(self.access_token)
    /\ trace = <<>>
    /\ ~ret.success

RenderExclusive(r) ==
    /\ r.success => (r.document # None /\ r.error = None)
    /\ ~r.success => (r.document = None /\ Truthy(r.error))

UploadExclusive(u) ==
    /\ u.success => (u.dropbox_path # None /\ u.error = None)
    /\ ~u.success => (u.dropbox_path = None /\ Truthy(u.error))

C9_SequentialTrace ==
    /\ outstanding \in {0, 1}
    /\ InPipeline =>
          /\ trace = Renders \o Uploads
          /\ Len(Renders) <= Len(Requested)
          /\ \A k \in 1..Len(Renders) :
                Renders[k] = [ kind |-> "render", template |-> Requested[k],
                               target |-> FileName(CaseId, Requested[k]) ]
          /\ ( \/ pc = "gcd_loop" /\ gcd.i > Len(gcd.templates)
               \/ pc \in {"ucd_loop", "ud_wait"}
               \/ Returned /\ CaseFound /\ AllStr(Requested) )
             => Len(Renders) = Len(Requested)
          /\ Uploads # <<>> =>
                /\ Len(Renders) = Len(Requested)
                /\ Len(answers) >= Len(Requested)
          /\ IsSubseq([j \in 1..Len(Uploads) |-> Uploads[j].target],
                      [k \in 1..Len(Requested) |->
                          Destination(CaseId, Requested[k])])
          /\ Len(Uploads) <= Len(Requested)
          /\ "results" \in DOMAIN gcd =>
                \A k \in 1..Len(gcd.results.documents) :
                    /\ gcd.results.documents[k].template = Requested[k]
                    /\ gcd.results.documents[k].filename
                          = FileName(CaseId, Requested[k])
          /\ Returned =>
                \A k \in 1..Len(ret.documents) :
                    ret.documents[k].template = Requested[k]

\* retries configured, the first render timed out, and the trace is still
\* three renders followed by the uploads of the two that succeeded
C9_Witness ==
    /\ InPipeline /\ Returned
    /\ self.max_retries = 3
    /\ args.templates = None
    /\ Len(Renders) = 3
    /\ Len(Uploads) = 2
    /\ Len(trace) = 5
    /\ Len(answers) = 5
    /\ answers[1].kind = "TimeoutException"

(* C10: generate_single_document renders exactly one document when the     *)
(* case data is found and calls nothing when it is not; it uploads, to     *)
(* Cases/{case id}/{output file name}, if and only if the render succeeded *)
(* and upload_to_dropbox is true and the upload client is enabled with a   *)
(* token, and exactly then the result carries the upload outcome under     *)
(* dropbox_upload; the upload does not change the render's success flag;   *)
(* no exception leaves the call.                                           *)
C10_SingleDocument ==
    InSingle =>
        /\ pc # "raised"
        /\ exc = None
        /\ NothingFetched =>
              /\ Returned
              /\ trace = <<>>
              /\ ret = [ success |-> FALSE,
                         error |-> <<"Case not found: ">> \o CaseId ]
        /\ trace = Renders \o Uploads
        /\ Len(Renders) <= 1
        /\ Len(Uploads) <= 1
        /\ (Returned /\ CaseFound /\ IsStr(args.template_name)) =>
              LET uploading == /\ RenderOK(answers[1])
                               /\ args.upload_to_dropbox
                               /\ self.enabled
                               /\ Truthy(self.access_token)
              IN
              /\ Renders = << [ kind |-> "render", template |-> args.template_name,
                                target |-> FileName(CaseId, args.template_name) ] >>
              /\ Uploads # <<>> <=> uploading
              /\ uploading =>
                    Uploads[1].target = Destination(CaseId, args.template_name)
              /\ "dropbox_upload" \in DOMAIN ret <=> uploading
              /\ uploading =>
                    /\ ret.dropbox_upload.success = UploadOK(answers[2])
                    /\ UploadOK(answers[2]) =>
                          ret.dropbox_upload.dropbox_path
                              = Destination(CaseId, args.template_name)
              /\ ret.success = RenderOK(answers[1])
              /\ ret.filename = FileName(CaseId, args.template_name)

\* the render succeeded, the upload was refused by the service, and the
\* result is the successful render carrying the failed upload
C10_Witness ==
    /\ InSingle /\ Returned
    /\ ret.success
    /\ "dropbox_upload" \in DOMAIN ret
    /\ ~ret.dropbox_upload.success
    /\ Len(trace) = 2

----------------------------------------------------------------------------
(* Paths *)

NoDoubledSeparator(path) ==
    \A k \in 1..(Len(path) - 1) : ~(path[k] = "/" /\ path[k + 1] = "/")

IsName(tok) == tok # "/"
Names(path) == SelectSeq(path, IsName)

DirectUpload == op = "upload_document" /\ "full_path" \in DOMAIN ud

(* C11: for every configured base path and every relative path given to   *)
(* upload_document, the resolved destination is the base path joined to    *)
(* the relative path by a separator and holds no doubled separator "//";   *)
(* /Apps/LegalFormApp with Cases/abc-123/doc.pdf resolves to               *)
(* /Apps/LegalFormApp/Cases/abc-123/doc.pdf; and on success the returned   *)
(* dropbox_path is the resolved path.  The code breaks this for a base     *)
(* path ending in "/" with a relative path starting with "/".              *)
C11_ResolvedPath ==
    DirectUpload =>
        /\ NoDoubledSeparator(ud.full_path)
        /\ Names(ud.full_path) = Names(self.base_path) \o Names(args.dropbox_path)
        /\ ( /\ self.base_path = <<"/", "Apps", "/", "LegalFormApp">>
             /\ args.dropbox_path = <<"Cases", "/", "abc-123", "/", "doc", ".pdf">> )
           => ud.full_path = <<"/", "Apps", "/", "LegalFormApp", "/", "Cases", "/",
                               "abc-123", "/", "doc", ".pdf">>
        /\ (Returned /\ ret.success) => ret.dropbox_path = ud.full_path

----------------------------------------------------------------------------
(* Renders and their uploads *)

\* generate_documents_for_case reached its upload step and returned
UploadStepRan ==
    /\ InPipeline /\ Returned
    /\ CaseFound /\ AllStr(Requested)
    /\ "results" \in DOMAIN ucd

\* renders that answered 200 with a body / with an empty body
RenderedWithBytes == { k \in RenderedOK : answers[k].content # <<>> }
RenderedEmpty == { k \in RenderedOK : answers[k].content = <<>> }

IsSynthetic(entry) ==
    /\ "dropbox_path" \notin DOMAIN entry
    /\ entry.error = <<"Document generation failed">>

(* C12: whenever generate_documents_for_case runs the upload step, every   *)
(* document counted in documents_generated (a 200 with an empty body       *)
(* included) gets a real upload attempt: the number of upload requests     *)
(* equals documents_generated, and no document whose render succeeded is   *)
(* reported as a synthetic "Document generation failed" entry.  This is    *)
(* the claim as written; a 200 with an empty body breaks it.               *)
C12_AsWritten ==
    UploadStepRan =>
        /\ Len(Uploads) = ret.documents_generated
        /\ \A k \in RenderedOK : ~IsSynthetic(ret.dropbox_uploads[k])

(* C12 as amended: whenever generate_documents_for_case runs the upload    *)
(* step, every document whose render succeeded with a non-empty body gets  *)
(* a real upload attempt and no synthetic entry, and the number of upload  *)
(* requests equals the number of such documents; a render that succeeded   *)
(* with an empty body is counted in documents_generated but is reported as *)
(* a synthetic "Document generation failed" entry without a request.       *)
C12_UploadsOfRenderedBytes ==
    UploadStepRan =>
        /\ ret.documents_generated = Cardinality(RenderedOK)
        /\ Len(Uploads) = Cardinality(RenderedWithBytes)
        /\ Len(Uploads) = ret.documents_generated - Cardinality(RenderedEmpty)
        /\ \A k \in RenderedWithBytes :
              /\ ~IsSynthetic(ret.dropbox_uploads[k])
              /\ \E j \in 1..Len(Uploads) :
                    Uploads[j].target = Destination(CaseId, Requested[k])
        /\ \A k \in RenderedEmpty : IsSynthetic(ret.dropbox_uploads[k])

\* two renders succeeded, one of them with an empty body: one upload request
C12_Witness ==
    /\ UploadStepRan
    /\ Cardinality(RenderedWithBytes) = 1
    /\ Cardinality(RenderedEmpty) = 1
    /\ ret.documents_generated = 2
    /\ Len(Uploads) = 1

====
